---- MODULE Spec2Model ----
(***************************************************************************)
(* The Hack assembler and CPU simulator of src/core/disassembler/facade.py *)
(* as state machines.  Python strings are sequences of one-character       *)
(* strings, so that indexing, splitting, stripping, formatting and parsing *)
(* are computed as the code computes them.                                 *)
(***************************************************************************)
EXTENDS Integers, Sequences, FiniteSets, TLC

VARIABLES
    \* ---- Assembler.assemble ----
    assembly,                \* the source lines handed to assemble
    apc,                     \* position in assemble: "parse", "translate", "done", "error"
    pos,                     \* 1-based position of the running for loop
    filtered_code,           \* parse_input's res: the real instructions
    index,                   \* parse_input's index
    symbol_dic,              \* SymbolTable.symbol_dic
    running_memory_address,  \* SymbolTable.running_memory_address
    res,                     \* translate's res: the words emitted so far
    \* ---- Simulator ----
    instructions,            \* Simulator.instructions
    cycles,                  \* simulate's cycle budget (an integer or Inf)
    i,                       \* simulate's loop counter
    spc,                     \* position in simulate: "loop", "done", "crashed"
    A, D, PC,                \* the registers and the program counter
    Ram,                     \* Simulator.Ram, as the cells assigned so far (all others hold 0)
    Res,                     \* Simulator.Res, an insertion-ordered dict: a sequence of <<key, value>>
    value,                   \* process_instruction's value, as last computed
    runs,                    \* the number of calls of simulate so far
    RamJson,                 \* the file RamJson.json as generate_json last wrote it
    executed,                \* the loop counter of the run that wrote RamJson
    \* ---- Simulator.compute_value applied to one machine state ----
    cin,                     \* the arguments: [comp, A, D, M]
    cout                     \* the result, or "none" before the call

asmVars == <<assembly, apc, pos, filtered_code, index, symbol_dic,
             running_memory_address, res>>
simVars == <<instructions, cycles, i, spc, A, D, PC, Ram, Res, value,
             runs, RamJson, executed>>
cmpVars == <<cin, cout>>
vars == <<asmVars, simVars, cmpVars>>

----------------------------------------------------------------------------
(* Python's str and int operations, on sequences of characters *)

Digits == <<"0", "1", "2", "3", "4", "5", "6", "7", "8", "9">>

DigitChars == {Digits[k] : k \in 1..10}

DigitVal(c) == (CHOOSE k \in 1..10 : Digits[k] = c) - 1

\* str.isnumeric(): non-empty and every character a digit
isnumeric(s) == Len(s) > 0 /\ \A k \in 1..Len(s) : s[k] \in DigitChars

RECURSIVE int10(_)
\* int(s) of a numeric string
int10(s) ==
    IF Len(s) = 0 THEN 0
    ELSE 10 * int10(SubSeq(s, 1, Len(s) - 1)) + DigitVal(s[Len(s)])

RECURSIVE StrNat(_)
StrNat(n) ==
    IF n < 10 THEN <<Digits[n + 1]>>
    ELSE StrNat(n \div 10) \o <<Digits[(n % 10) + 1]>>

\* str(n) of an int
str(n) == IF n < 0 THEN <<"-">> \o StrNat(-n) ELSE StrNat(n)

RECURSIVE BinNat(_)
BinNat(n) ==
    IF n < 2 THEN <<Digits[n + 1]>>
    ELSE BinNat(n \div 2) \o <<Digits[(n % 2) + 1]>>

\* format(n, "b")
format_b(n) == IF n < 0 THEN <<"-">> \o BinNat(-n) ELSE BinNat(n)

RECURSIVE zfill(_, _)
\* str.zfill(width): pads on the left, after a leading sign, and never cuts
zfill(s, width) ==
    IF Len(s) >= width THEN s
    ELSE IF Len(s) > 0 /\ s[1] = "-" THEN <<"-">> \o zfill(Tail(s), width - 1)
    ELSE zfill(<<"0">> \o s, width)

\* str.replace(ch, "") for a one-character ch
remove(s, ch) == SelectSeq(s, LAMBDA c : c # ch)

\* str.partition(sep)[0] for a one-character sep
partition0(s, sep) ==
    IF \E k \in 1..Len(s) : s[k] = sep
    THEN SubSeq(s, 1, (CHOOSE k \in 1..Len(s) :
                          s[k] = sep /\ \A m \in 1..(k - 1) : s[m] # sep) - 1)
    ELSE s

RECURSIVE lstrip(_, _)
lstrip(s, chars) ==
    IF Len(s) > 0 /\ s[1] \in chars THEN lstrip(Tail(s), chars) ELSE s

RECURSIVE rstrip(_, _)
rstrip(s, chars) ==
    IF Len(s) > 0 /\ s[Len(s)] \in chars
    THEN rstrip(SubSeq(s, 1, Len(s) - 1), chars) ELSE s

\* str.strip(chars)
strip(s, chars) == rstrip(lstrip(s, chars), chars)

RECURSIVE re_split(_, _)
\* re.split("[=;]", s): the fields between the separator characters
re_split(s, seps) ==
    IF \E k \in 1..Len(s) : s[k] \in seps
    THEN LET k == CHOOSE k \in 1..Len(s) :
                     s[k] \in seps /\ \A m \in 1..(k - 1) : s[m] \notin seps
         IN  <<SubSeq(s, 1, k - 1)>> \o re_split(SubSeq(s, k + 1, Len(s)), seps)
    ELSE <<s>>

RECURSIVE int2(_)
\* the value of a string of binary digits
int2(s) ==
    IF Len(s) = 0 THEN 0
    ELSE 2 * int2(SubSeq(s, 1, Len(s) - 1)) + DigitVal(s[Len(s)])

RECURSIVE BitAnd(_, _)
\* Python's x & y on unbounded two's-complement ints
BitAnd(x, y) ==
    IF x = 0 \/ y = 0 THEN 0
    ELSE IF x = -1 THEN y
    ELSE IF y = -1 THEN x
    ELSE (x % 2) * (y % 2) + 2 * BitAnd(x \div 2, y \div 2)

RECURSIVE BitOr(_, _)
\* Python's x | y on unbounded two's-complement ints
BitOr(x, y) ==
    IF x = 0 THEN y
    ELSE IF y = 0 THEN x
    ELSE IF x = -1 \/ y = -1 THEN -1
    ELSE (IF x % 2 = 1 \/ y % 2 = 1 THEN 1 ELSE 0) + 2 * BitOr(x \div 2, y \div 2)

RECURSIVE Pow2(_)
\* 1 << n
Pow2(n) == IF n = 0 THEN 1 ELSE 2 * Pow2(n - 1)

----------------------------------------------------------------------------
(* The encoding tables *)

dest_table ==
       (<<"n", "u", "l", "l">> :> <<"0", "0", "0">>)
    @@ (<<"A">> :> <<"1", "0", "0">>)
    @@ (<<"D">> :> <<"0", "1", "0">>)
    @@ (<<"M">> :> <<"0", "0", "1">>)
    @@ (<<"A", "D">> :> <<"1", "1", "0">>)
    @@ (<<"A", "M">> :> <<"1", "0", "1">>)
    @@ (<<"M", "D">> :> <<"0", "1", "1">>)
    @@ (<<"A", "M", "D">> :> <<"1", "1", "1">>)

comp_table ==
       (<<"0">> :> <<"0", "1", "0", "1", "0", "1", "0">>)
    @@ (<<"1">> :> <<"0", "1", "1", "1", "1", "1", "1">>)
    @@ (<<"-", "1">> :> <<"0", "1", "1", "1", "0", "1", "0">>)
    @@ (<<"D">> :> <<"0", "0", "0", "1", "1", "0", "0">>)
    @@ (<<"A">> :> <<"0", "1", "1", "0", "0", "0", "0">>)
    @@ (<<"M">> :> <<"1", "1", "1", "0", "0", "0", "0">>)
    @@ (<<"!", "D">> :> <<"0", "0", "0", "1", "1", "0", "1">>)
    @@ (<<"!", "A">> :> <<"0", "1", "1", "0", "0", "0", "1">>)
    @@ (<<"!", "M">> :> <<"1", "1", "1", "0", "0", "0", "1">>)
    @@ (<<"-", "D">> :> <<"0", "0", "0", "1", "1", "1", "1">>)
    @@ (<<"-", "A">> :> <<"0", "1", "1", "0", "0", "1", "1">>)
    @@ (<<"-", "M">> :> <<"1", "1", "1", "0", "0", "1", "1">>)
    @@ (<<"D", "+", "1">> :> <<"0", "0", "1", "1", "1", "1", "1">>)
    @@ (<<"1", "+", "D">> :> <<"0", "0", "1", "1", "1", "1", "1">>)
    @@ (<<"A", "+", "1">> :> <<"0", "1", "1", "0", "1", "1", "1">>)
    @@ (<<"1", "+", "A">> :> <<"0", "1", "1", "0", "1", "1", "1">>)
    @@ (<<"M", "+", "1">> :> <<"1", "1", "1", "0", "1", "1", "1">>)
    @@ (<<"1", "+", "M">> :> <<"1", "1", "1", "0", "1", "1", "1">>)
    @@ (<<"D", "-", "1">> :> <<"0", "0", "0", "1", "1", "1", "0">>)
    @@ (<<"A", "-", "1">> :> <<"0", "1", "1", "0", "0", "1", "0">>)
    @@ (<<"M", "-", "1">> :> <<"1", "1", "1", "0", "0", "1", "0">>)
    @@ (<<"D", "+", "A">> :> <<"0", "0", "0", "0", "0", "1", "0">>)
    @@ (<<"A", "+", "D">> :> <<"0", "0", "0", "0", "0", "1", "0">>)
    @@ (<<"D", "+", "M">> :> <<"1", "0", "0", "0", "0", "1", "0">>)
    @@ (<<"M", "+", "D">> :> <<"1", "0", "0", "0", "0", "1", "0">>)
    @@ (<<"D", "-", "A">> :> <<"0", "0", "1", "0", "0", "1", "1">>)
    @@ (<<"D", "-", "M">> :> <<"1", "0", "1", "0", "0", "1", "1">>)
    @@ (<<"A", "-", "D">> :> <<"0", "0", "0", "0", "1", "1", "1">>)
    @@ (<<"M", "-", "D">> :> <<"1", "0", "0", "0", "1", "1", "1">>)
    @@ (<<"D", "&", "A">> :> <<"0", "0", "0", "0", "0", "0", "0">>)
    @@ (<<"D", "&", "M">> :> <<"1", "0", "0", "0", "0", "0", "0">>)
    @@ (<<"D", "|", "A">> :> <<"0", "0", "1", "0", "1", "0", "1">>)
    @@ (<<"D", "|", "M">> :> <<"1", "0", "1", "0", "1", "0", "1">>)

jump_table ==
       (<<"n", "u", "l", "l">> :> <<"0", "0", "0">>)
    @@ (<<"J", "G", "T">> :> <<"0", "0", "1">>)
    @@ (<<"J", "E", "Q">> :> <<"0", "1", "0">>)
    @@ (<<"J", "G", "E">> :> <<"0", "1", "1">>)
    @@ (<<"J", "L", "T">> :> <<"1", "0", "0">>)
    @@ (<<"J", "N", "E">> :> <<"1", "0", "1">>)
    @@ (<<"J", "L", "E">> :> <<"1", "1", "0">>)
    @@ (<<"J", "M", "P">> :> <<"1", "1", "1">>)

----------------------------------------------------------------------------
(* Bounds of the exploration *)

\* longest source program built from SymLines
MaxLines == 4

\* largest finite cycle budget tried
MaxCycles == 1

\* cap on executed cycles (it stops the exploration of a program that loops
\* under an unbounded budget)
MaxSteps == 5

\* most calls of simulate followed, one after the other
MaxRuns == 2

\* largest finite budget given to the second run of a program
MaxBudget == 4

----------------------------------------------------------------------------
(* SymbolTable *)

\* SymbolTable.get_value's answer for a missing key
Unresolved == -1

\* the cursor's first value: SymbolTable.__init__
FirstVariableAddress == 16

\* SymbolTable.add: insert or overwrite
add(dic, key, val) ==
    [k \in DOMAIN dic \cup {key} |-> IF k = key THEN val ELSE dic[k]]

\* SymbolTable.get_value
get_value(dic, key) == IF key \in DOMAIN dic THEN dic[key] ELSE Unresolved

\* SymbolTable.initialize_symbol_table
initialize_symbol_table ==
    LET regs == [k \in {<<"R">> \o str(n) : n \in 0..15} |-> int10(Tail(k))]
    IN  regs
        @@ (<<"S", "C", "R", "E", "E", "N">> :> 16384)
        @@ (<<"K", "B", "D">> :> 24576)
        @@ (<<"S", "P">> :> 0)
        @@ (<<"L", "C", "L">> :> 1)
        @@ (<<"A", "R", "G">> :> 2)
        @@ (<<"T", "H", "I", "S">> :> 3)
        @@ (<<"T", "H", "A", "T">> :> 4)

----------------------------------------------------------------------------
(* Assembler *)

\* Assembler.should_skip
should_skip(word) == word = <<"\n">> \/ word = <<>> \/ word[1] = "/"

\* the line as parse_input sees it after removing spaces
despaced(line) == remove(line, " ")

\* the token parse_input keeps of a line that is not skipped
token(line) == partition0(remove(despaced(line), "\n"), "/")

\* parse_line with a label definition taking an instruction slot
parse_line_label_counts(line, st) ==
    IF should_skip(despaced(line)) THEN st
    ELSE IF token(line)[1] = "("
    THEN [st EXCEPT !.dic = add(st.dic, strip(token(line), {"(", ",", ")"}), st.index),
                    !.index = st.index + 1]
    ELSE [st EXCEPT !.index = st.index + 1, !.res = Append(st.res, token(line))]

\* One iteration of parse_input's loop over a line, from [res, index, dic].
parse_line(line, st) ==
    IF should_skip(despaced(line)) THEN st
    ELSE IF token(line)[1] = "("
    THEN [st EXCEPT !.dic = add(st.dic, strip(token(line), {"(", ",", ")"}), st.index)]
    ELSE [st EXCEPT !.index = st.index + 1, !.res = Append(st.res, token(line))]

\* What a raising table lookup, subscript or int() yields in place of a value.
KeyError == <<"KeyError">>

IndexError == <<"IndexError">>

ValueError == <<"ValueError">>

\* c_word with the dest code ahead of the comp code
c_word_dest_first(c, d, j) ==
    IF KeyError \in {c, d, j} THEN KeyError
    ELSE <<"1", "1", "1">> \o d \o c \o j

\* The concatenation process_word emits for a C-instruction: the opcode
\* prefix, then the comp, dest and jump codes; KeyError when a lookup raised
c_word(c, d, j) ==
    IF KeyError \in {c, d, j} THEN KeyError
    ELSE <<"1", "1", "1">> \o c \o d \o j

\* The C-instruction branch of process_word: the word, or KeyError /
\* IndexError where a table lookup or a subscript raises.
encode_c(word) ==
    LET split_arr == re_split(word, {"=", ";"})
        comp(t) == IF t \in DOMAIN comp_table THEN comp_table[t] ELSE KeyError
        dest(t) == IF t \in DOMAIN dest_table THEN dest_table[t] ELSE KeyError
        jump(t) == IF t \in DOMAIN jump_table THEN jump_table[t] ELSE KeyError
    IN  IF Len(split_arr) = 2
        THEN IF Len(split_arr[2]) = 0 THEN IndexError
             ELSE IF split_arr[2][1] # "J"
             THEN c_word(comp(split_arr[2]), dest(split_arr[1]), <<"0", "0", "0">>)
             ELSE IF ~isnumeric(split_arr[1])
             THEN c_word(comp(split_arr[1]), dest_table[<<"n", "u", "l", "l">>],
                         jump(split_arr[2]))
             ELSE c_word(comp_table[<<"0">>], dest_table[<<"n", "u", "l", "l">>],
                         jump(split_arr[2]))
        ELSE IF Len(split_arr) < 3 THEN IndexError
        ELSE c_word(comp(split_arr[2]), dest(split_arr[1]), jump(split_arr[3]))

\* allocate without the cursor moving on
allocate_no_advance(sym, st) ==
    [st EXCEPT !.res = Append(st.res, zfill(format_b(st.rma), 16)),
               !.dic = add(st.dic, sym, st.rma)]

\* process_word's last branch: an unresolved symbol takes the cursor's
\* address, and the cursor moves on
allocate(sym, st) ==
    [st EXCEPT !.res = Append(st.res, zfill(format_b(st.rma), 16)),
               !.dic = add(st.dic, sym, st.rma),
               !.rma = st.rma + 1]

\* Assembler.process_word on one real instruction, from [res, dic, rma]:
\* the state after it, with err set when it raises.
process_word(word, st) ==
    IF word[1] # "@"
    THEN IF encode_c(word) \in {KeyError, IndexError}
         THEN [st EXCEPT !.err = encode_c(word)]
         ELSE [st EXCEPT !.res = Append(st.res, encode_c(word))]
    ELSE LET sym == Tail(word)
         IN  IF isnumeric(sym)
             THEN [st EXCEPT !.res = Append(st.res, zfill(format_b(int10(sym)), 16))]
             ELSE IF get_value(st.dic, sym) # Unresolved
             THEN [st EXCEPT
                     !.res = Append(st.res, zfill(format_b(get_value(st.dic, sym)), 16))]
             ELSE allocate(sym, st)

\* assemble, lines 114-115: a fresh SymbolTable, then parse_input's loop
AsmStart(lines) ==
    /\ assembly = lines
    /\ apc = "parse"
    /\ pos = 1
    /\ filtered_code = <<>>
    /\ index = 0
    /\ symbol_dic = initialize_symbol_table
    /\ running_memory_address = FirstVariableAddress
    /\ res = <<>>

\* the assembler before any call
AsmIdle ==
    /\ assembly = <<>>
    /\ apc = "idle"
    /\ pos = 1
    /\ filtered_code = <<>>
    /\ index = 0
    /\ symbol_dic = initialize_symbol_table
    /\ running_memory_address = FirstVariableAddress
    /\ res = <<>>

\* one iteration of parse_input's for loop
ParseLine ==
    /\ apc = "parse"
    /\ pos <= Len(assembly)
    /\ LET st == parse_line(assembly[pos],
                            [res |-> filtered_code, index |-> index, dic |-> symbol_dic])
       IN  /\ filtered_code' = st.res
           /\ index' = st.index
           /\ symbol_dic' = st.dic
    /\ pos' = pos + 1
    /\ UNCHANGED <<assembly, apc, running_memory_address, res>>

\* parse_input returns; translate's loop starts
ParseReturn ==
    /\ apc = "parse"
    /\ pos > Len(assembly)
    /\ apc' = "translate"
    /\ pos' = 1
    /\ UNCHANGED <<assembly, filtered_code, index, symbol_dic,
                   running_memory_address, res>>

\* one iteration of translate's for loop: process_word; an exception leaves
\* assemble without a result
TranslateWord ==
    /\ apc = "translate"
    /\ pos <= Len(filtered_code)
    /\ LET st == process_word(filtered_code[pos],
                              [res |-> res, dic |-> symbol_dic,
                               rma |-> running_memory_address, err |-> <<>>])
       IN  /\ res' = st.res
           /\ symbol_dic' = st.dic
           /\ running_memory_address' = st.rma
           /\ apc' = IF st.err = <<>> THEN "translate" ELSE "error"
    /\ pos' = pos + 1
    /\ UNCHANGED <<assembly, filtered_code, index>>

\* translate returns res, and assemble returns it
TranslateReturn ==
    /\ apc = "translate"
    /\ pos > Len(filtered_code)
    /\ apc' = "done"
    /\ UNCHANGED <<assembly, pos, filtered_code, index, symbol_dic,
                   running_memory_address, res>>

----------------------------------------------------------------------------
(* Simulator *)

\* len(Simulator.Ram)
RamSize == 65536

\* float("inf"), the budget Disassembler.disassemble passes for cycles = 0,
\* written as a number below every counter value
Inf == -1

\* Python's list subscript: an index the list has, counting from the end
\* when negative
InRange(a, n) == -n <= a /\ a < n

Cell(a, n) == IF a < 0 THEN a + n ELSE a

\* self.Ram[c] of a cell: the value last assigned to it, initially 0
RamRead(ram, c) == IF c \in DOMAIN ram THEN ram[c] ELSE 0

\* self.Res[k] = v on an insertion-ordered dict
ResSet(r, k, v) ==
    IF \E n \in 1..Len(r) : r[n][1] = k
    THEN [n \in 1..Len(r) |-> IF r[n][1] = k THEN <<k, v>> ELSE r[n]]
    ELSE Append(r, <<k, v>>)

ResKeys(r) == {r[n][1] : n \in 1..Len(r)}

ResGet(r, k) == r[CHOOSE n \in 1..Len(r) : r[n][1] = k][2]

\* a returned value, and a raised exception
Val(v) == [err |-> "", val |-> v]

Raise(e) == [err |-> e, val |-> 0]

\* Simulator.twos_comp
twos_comp(val, bits) ==
    IF BitAnd(val, Pow2(bits - 1)) # 0 THEN val - Pow2(bits) ELSE val

\* int(st, 2) of st = str(x): an optional sign and binary digits, ValueError
\* on any other digit
int_base2(st) ==
    LET neg == st[1] = "-"
        digs == IF neg THEN Tail(st) ELSE st
    IN  IF \A k \in 1..Len(digs) : digs[k] \in {"0", "1"}
        THEN Val(IF neg THEN -int2(digs) ELSE int2(digs))
        ELSE Raise("ValueError")

\* st = str(x); return self.twos_comp(int(st, 2), len(st))
reinterpret(x) ==
    IF int_base2(str(x)).err # "" THEN int_base2(str(x))
    ELSE Val(twos_comp(int_base2(str(x)).val, Len(str(x))))

\* an expression over self.Ram[self.A], which raises outside the list
FromRam(s, f(_)) ==
    IF InRange(s.A, RamSize) THEN f(RamRead(s.Ram, Cell(s.A, RamSize)))
    ELSE Raise("IndexError")

\* compute_value with the operands of D-A and of D-M exchanged
compute_value_swapped(comp, s) ==
    CASE comp = <<"0", "1", "0", "1", "0", "1", "0">> -> Val(0)
      [] comp = <<"0", "1", "1", "1", "1", "1", "1">> -> Val(1)
      [] comp = <<"0", "1", "1", "1", "0", "1", "0">> -> Val(-1)
      [] comp = <<"0", "0", "0", "1", "1", "0", "0">> -> Val(s.D)
      [] comp = <<"0", "1", "1", "0", "0", "0", "0">> -> Val(s.A)
      [] comp = <<"0", "0", "0", "1", "1", "0", "1">> -> reinterpret(s.A)
      [] comp = <<"0", "0", "1", "1", "1", "1", "1">> -> Val(s.D + 1)
      [] comp = <<"0", "1", "1", "0", "1", "1", "1">> -> Val(s.A + 1)
      [] comp = <<"0", "0", "0", "1", "1", "1", "0">> -> Val(s.D - 1)
      [] comp = <<"0", "1", "1", "0", "0", "1", "0">> -> Val(s.A - 1)
      [] comp = <<"0", "0", "0", "0", "0", "1", "0">> -> Val(s.D + s.A)
      [] comp = <<"0", "0", "1", "0", "0", "1", "1">> -> Val(s.A - s.D)
      [] comp = <<"0", "0", "0", "0", "1", "1", "1">> -> Val(s.A - s.D)
      [] comp = <<"0", "0", "0", "0", "0", "0", "0">> -> Val(BitAnd(s.D, s.A))
      [] comp = <<"0", "0", "1", "0", "1", "0", "1">> -> Val(BitOr(s.D, s.A))
      [] comp = <<"1", "1", "1", "0", "0", "0", "0">> -> FromRam(s, LAMBDA m : Val(m))
      [] comp = <<"1", "1", "1", "0", "0", "0", "1">> -> FromRam(s, LAMBDA m : reinterpret(m))
      [] comp = <<"1", "1", "1", "0", "0", "1", "1">> -> FromRam(s, LAMBDA m : Val(-m))
      [] comp = <<"1", "1", "1", "0", "1", "1", "1">> -> FromRam(s, LAMBDA m : Val(m + 1))
      [] comp = <<"1", "1", "1", "0", "0", "1", "0">> -> FromRam(s, LAMBDA m : Val(m - 1))
      [] comp = <<"1", "0", "0", "0", "0", "1", "0">> -> FromRam(s, LAMBDA m : Val(s.D + m))
      [] comp = <<"1", "0", "1", "0", "0", "1", "1">> -> FromRam(s, LAMBDA m : Val(m - s.D))
      [] comp = <<"1", "0", "0", "0", "1", "1", "1">> -> FromRam(s, LAMBDA m : Val(m - s.D))
      [] comp = <<"1", "0", "0", "0", "0", "0", "0">> -> FromRam(s, LAMBDA m : Val(BitAnd(s.D, m)))
      [] comp = <<"1", "0", "1", "0", "1", "0", "1">> -> FromRam(s, LAMBDA m : Val(BitOr(s.D, m)))
      [] OTHER -> Val(0)

\* Simulator.compute_value, on s = [A, D, Ram, ...]
compute_value(comp, s) ==
    CASE comp = <<"0", "1", "0", "1", "0", "1", "0">> -> Val(0)
      [] comp = <<"0", "1", "1", "1", "1", "1", "1">> -> Val(1)
      [] comp = <<"0", "1", "1", "1", "0", "1", "0">> -> Val(-1)
      [] comp = <<"0", "0", "0", "1", "1", "0", "0">> -> Val(s.D)
      [] comp = <<"0", "1", "1", "0", "0", "0", "0">> -> Val(s.A)
      [] comp = <<"0", "0", "0", "1", "1", "0", "1">> -> reinterpret(s.A)
      [] comp = <<"0", "0", "1", "1", "1", "1", "1">> -> Val(s.D + 1)
      [] comp = <<"0", "1", "1", "0", "1", "1", "1">> -> Val(s.A + 1)
      [] comp = <<"0", "0", "0", "1", "1", "1", "0">> -> Val(s.D - 1)
      [] comp = <<"0", "1", "1", "0", "0", "1", "0">> -> Val(s.A - 1)
      [] comp = <<"0", "0", "0", "0", "0", "1", "0">> -> Val(s.D + s.A)
      [] comp = <<"0", "0", "1", "0", "0", "1", "1">> -> Val(s.D - s.A)
      [] comp = <<"0", "0", "0", "0", "1", "1", "1">> -> Val(s.A - s.D)
      [] comp = <<"0", "0", "0", "0", "0", "0", "0">> -> Val(BitAnd(s.D, s.A))
      [] comp = <<"0", "0", "1", "0", "1", "0", "1">> -> Val(BitOr(s.D, s.A))
      [] comp = <<"1", "1", "1", "0", "0", "0", "0">> -> FromRam(s, LAMBDA m : Val(m))
      [] comp = <<"1", "1", "1", "0", "0", "0", "1">> -> FromRam(s, LAMBDA m : reinterpret(m))
      [] comp = <<"1", "1", "1", "0", "0", "1", "1">> -> FromRam(s, LAMBDA m : Val(-m))
      [] comp = <<"1", "1", "1", "0", "1", "1", "1">> -> FromRam(s, LAMBDA m : Val(m + 1))
      [] comp = <<"1", "1", "1", "0", "0", "1", "0">> -> FromRam(s, LAMBDA m : Val(m - 1))
      [] comp = <<"1", "0", "0", "0", "0", "1", "0">> -> FromRam(s, LAMBDA m : Val(s.D + m))
      [] comp = <<"1", "0", "1", "0", "0", "1", "1">> -> FromRam(s, LAMBDA m : Val(s.D - m))
      [] comp = <<"1", "0", "0", "0", "1", "1", "1">> -> FromRam(s, LAMBDA m : Val(m - s.D))
      [] comp = <<"1", "0", "0", "0", "0", "0", "0">> -> FromRam(s, LAMBDA m : Val(BitAnd(s.D, m)))
      [] comp = <<"1", "0", "1", "0", "1", "0", "1">> -> FromRam(s, LAMBDA m : Val(BitOr(s.D, m)))
      [] OTHER -> Val(0)

\* self.Ram[self.A] = value; self.Res[self.A] = value
write_m(s, v) ==
    IF s.err # "" THEN s
    ELSE IF InRange(s.A, RamSize)
    THEN [s EXCEPT !.Ram = (Cell(s.A, RamSize) :> v) @@ s.Ram,
                   !.Res = ResSet(s.Res, s.A, v)]
    ELSE [s EXCEPT !.err = "IndexError"]

set_a(s, v) == IF s.err # "" THEN s ELSE [s EXCEPT !.A = v]

set_d(s, v) == IF s.err # "" THEN s ELSE [s EXCEPT !.D = v]

\* Simulator.store, on s = [A, D, Ram, Res, err], the assignments in the
\* order the code makes them
store(v, dest, s) ==
    CASE dest = <<"0", "0", "1">> -> write_m(s, v)
      [] dest = <<"0", "1", "0">> -> set_d(s, v)
      [] dest = <<"0", "1", "1">> -> set_d(write_m(s, v), v)
      [] dest = <<"1", "0", "0">> -> set_a(s, v)
      [] dest = <<"1", "0", "1">> -> write_m(set_a(s, v), v)
      [] dest = <<"1", "1", "0">> -> set_d(set_a(s, v), v)
      [] dest = <<"1", "1", "1">> -> write_m(set_d(set_a(s, v), v), v)
      [] OTHER -> s

\* should_jump with JGE firing only above zero
should_jump_strict(v, inst) ==
    \/ inst = <<"0", "0", "1">> /\ v > 0
    \/ inst = <<"0", "1", "0">> /\ v = 0
    \/ inst = <<"0", "1", "1">> /\ v > 0
    \/ inst = <<"1", "0", "0">> /\ v < 0
    \/ inst = <<"1", "0", "1">> /\ ~(v = 0)
    \/ inst = <<"1", "1", "0">> /\ v <= 0
    \/ inst = <<"1", "1", "1">>

\* Simulator.jump's should_jump
should_jump(v, inst) ==
    \/ inst = <<"0", "0", "1">> /\ v > 0
    \/ inst = <<"0", "1", "0">> /\ v = 0
    \/ inst = <<"0", "1", "1">> /\ v >= 0
    \/ inst = <<"1", "0", "0">> /\ v < 0
    \/ inst = <<"1", "0", "1">> /\ ~(v = 0)
    \/ inst = <<"1", "1", "0">> /\ v <= 0
    \/ inst = <<"1", "1", "1">>

\* Simulator.jump: the next program counter
jump(v, inst, a, pc) == IF should_jump(v, inst) THEN a ELSE pc + 1

\* Simulator.process_instruction, on s = [A, D, PC, Ram, Res, value, err]:
\* the state after it; err names the exception that ended it early
process_instruction(instruction, s) ==
    IF instruction[1] = "1"
    THEN LET c == compute_value(SubSeq(instruction, 4, 10), s)
             t == store(c.val, SubSeq(instruction, 11, 13), [s EXCEPT !.value = c.val])
         IN  IF c.err # "" THEN [s EXCEPT !.err = c.err]
             ELSE IF t.err # "" THEN t
             ELSE [t EXCEPT !.PC = jump(c.val, SubSeq(instruction, 14, Len(instruction)),
                                        t.A, s.PC)]
    ELSE [s EXCEPT !.A = int2(Tail(instruction)), !.PC = s.PC + 1]

\* Simulator.replace_negative
replace_negative(r) ==
    [n \in 1..Len(r) |-> IF r[n][2] < 0 THEN <<r[n][1], r[n][2] + Pow2(16)>> ELSE r[n]]

\* the machine state as process_instruction reads and writes it
Machine ==
    [A |-> A, D |-> D, PC |-> PC, Ram |-> Ram, Res |-> Res, value |-> value, err |-> ""]

\* a while condition that stops two cycles early: i + 1 < cycles
InBudget_short == cycles = Inf \/ i + 1 < cycles

\* the while condition of simulate: i <= cycles
InBudget == cycles = Inf \/ i <= cycles

\* The fetch self.instructions[self.PC]: it raises outside the list and
\* counts from the end for a negative PC
CanFetch == InRange(PC, Len(instructions))

Fetched == instructions[Cell(PC, Len(instructions)) + 1]

\* One iteration of simulate's loop that executes an instruction; an
\* exception leaves simulate without a report.
Step ==
    /\ spc = "loop"
    /\ InBudget
    /\ i < MaxSteps
    /\ PC # Len(instructions)
    /\ IF ~CanFetch
       THEN /\ spc' = "crashed"
            /\ UNCHANGED <<A, D, PC, Ram, Res, value, i>>
       ELSE LET t == process_instruction(Fetched, Machine)
            IN  /\ A' = t.A
                /\ D' = t.D
                /\ PC' = t.PC
                /\ Ram' = t.Ram
                /\ Res' = t.Res
                /\ value' = t.value
                /\ spc' = IF t.err = "" THEN "loop" ELSE "crashed"
                /\ i' = IF t.err = "" THEN i + 1 ELSE i
    /\ UNCHANGED <<instructions, cycles, runs, RamJson, executed>>

\* The loop ends (budget spent, or PC at the end of the instructions):
\* replace_negative, then generate_json writes self.Res
Finish ==
    /\ spc = "loop"
    /\ ~InBudget \/ PC = Len(instructions)
    /\ Res' = replace_negative(Res)
    /\ RamJson' = [written |-> TRUE, data |-> Res']
    /\ executed' = i
    /\ spc' = "done"
    /\ UNCHANGED <<instructions, cycles, i, A, D, PC, Ram, value, runs>>

\* no RamJson.json in the directory of the program
NoFile == [written |-> FALSE, data |-> <<>>]

\* The simulator before any call
SimIdle ==
    /\ runs = 0
    /\ RamJson = NoFile
    /\ executed = 0
    /\ instructions = <<>>
    /\ cycles = 0
    /\ i = 0
    /\ spc = "idle"
    /\ A = 0 /\ D = 0 /\ PC = 0
    /\ Ram = <<>>
    /\ Res = <<>>
    /\ value = 0

\* simulate on a fresh Simulator in a fresh process: the class attributes
\* A = D = PC = 0, Ram all 0, Res = {}, and i = 0 at the loop
SimStart(words, budget) ==
    /\ runs = 1
    /\ RamJson = NoFile
    /\ executed = 0
    /\ instructions = words
    /\ cycles = budget
    /\ i = 0
    /\ spc = "loop"
    /\ A = 0 /\ D = 0 /\ PC = 0
    /\ Ram = <<>>
    /\ Res = <<>>
    /\ value = 0

\* Disassembler.disassemble once more in the same process: a new Simulator
\* whose A, D and PC read the class attributes (0) until assigned, and whose
\* Ram and Res are the class's one list and one dict, as the runs before
\* left them
NewSimulator(words, budget) ==
    /\ spc \in {"done", "crashed"}
    /\ runs < MaxRuns
    /\ runs' = runs + 1
    /\ instructions' = words
    /\ cycles' = budget
    /\ i' = 0
    /\ spc' = "loop"
    /\ A' = 0 /\ D' = 0 /\ PC' = 0
    /\ value' = 0
    /\ UNCHANGED <<Ram, Res, RamJson, executed>>

\* The same program file run again by a new process with the budget given:
\* the class attributes are as the class statement builds them, and
\* RamJson.json is still in the directory
NewProcess(budget) ==
    /\ spc = "done"
    /\ runs < MaxRuns
    /\ runs' = runs + 1
    /\ cycles' = budget
    /\ i' = 0
    /\ spc' = "loop"
    /\ A' = 0 /\ D' = 0 /\ PC' = 0
    /\ Ram' = <<>>
    /\ Res' = <<>>
    /\ value' = 0
    /\ UNCHANGED <<instructions, RamJson, executed>>

\* compute_value not yet called
Pending == Raise("pending")

CmpIdle ==
    /\ cin = [comp |-> <<>>, A |-> 0, D |-> 0, M |-> 0]
    /\ cout = Pending

\* compute_value on the machine state of cin: A, D and Ram[A] = M
Compute ==
    /\ cout = Pending
    /\ cout' = compute_value(cin.comp,
                             [A |-> cin.A, D |-> cin.D,
                              Ram |-> (Cell(cin.A, RamSize) :> cin.M)])
    /\ UNCHANGED cin

----------------------------------------------------------------------------
(* Inputs *)

null == <<"n", "u", "l", "l">>

\* an A-instruction word: bit 0 = 0, then the 15-bit value
AWord(n) == <<"0">> \o zfill(format_b(n), 15)

\* a C-instruction word of the mnemonics c, d, j
CWord(c, d, j) == <<"1", "1", "1">> \o comp_table[c] \o dest_table[d] \o jump_table[j]

\* the seven-bit codes of the comp table
CompCodes == {comp_table[c] : c \in DOMAIN comp_table}

LOOP == <<"L", "O", "O", "P">>

END == <<"E", "N", "D">>

At(name) == <<"@">> \o name

Label(name) == <<"(">> \o name \o <<")">>

\* source lines for the symbol programs: label definitions, references to
\* labels, variables and a predefined symbol, and a C-instruction
SymLines ==
    { Label(LOOP), Label(END), At(LOOP), At(END), At(<<"i">>), At(<<"s", "u", "m">>),
      At(<<"R", "1">>), <<"0", ";", "J", "M", "P">> }

SymPrograms == UNION {[1..n -> SymLines] : n \in 1..MaxLines}

\* every one-instruction program of the three C-instruction shapes
OneLiners ==
    {<<c \o <<";">> \o j>> : c \in DOMAIN comp_table, j \in DOMAIN jump_table \ {null}}
    \cup {<<d \o <<"=">> \o c>> : d \in DOMAIN dest_table, c \in DOMAIN comp_table}
    \cup {<<d \o <<"=">> \o c \o <<";">> \o j>> :
             d \in DOMAIN dest_table, c \in DOMAIN comp_table, j \in DOMAIN jump_table}

\* the program of the documentation's example
AddProgram ==
    << <<"@", "2">>, <<"D", "=", "A">>, <<"@", "3">>, <<"D", "=", "D", "+", "A">>,
       <<"@", "0">>, <<"M", "=", "D">> >>

\* lines as read from a file: comments, blank lines, spaces, line ends
FileProgram ==
    << <<"/", "/", " ", "a", "d", "d", "\n">>, <<"\n">>,
       <<" ", " ", "@", "2", " ", "/", "/", "x", "\n">>, <<"(", "L", "O", "O", "P", ")", "\n">>,
       <<"D", " ", "=", " ", "A", "\n">>, <<"@", "L", "O", "O", "P", "\n">>,
       <<"0", ";", "J", "M", "P", "\n">> >>

\* programs with a token no table has, or without the fields a shape needs
BadPrograms ==
    { << <<"@", "1">>, <<"D", "=", "Q">> >>, << <<"X", "=", "D">>, <<"@", "1">> >>,
      << <<"D", ";", "J", "X", "X">> >>, << <<"D">> >>, << <<"D", "=">> >>,
      << <<"2", "=", "D", ";", "J", "M", "P">> >>,
      << <<"5", ";", "J", "M", "P">> >>, << <<"D", "=", "5">> >>,
      << <<"5", ";", "J", "X", "X">> >>, << <<"M", "=", "D", ";", "J", "5">> >> }

\* A-instructions of the largest 15-bit literal and of literals beyond it
WidePrograms ==
    { << <<"@", "3", "2", "7", "6", "7">> >>, << <<"@", "3", "2", "7", "6", "8">> >>,
      << <<"@", "6", "5", "5", "3", "6">> >> }

AsmPrograms ==
    SymPrograms \cup OneLiners \cup {AddProgram, FileProgram} \cup BadPrograms
    \cup WidePrograms

\* values loaded by the A-instructions of the machine programs
AValues == {0, 1, 10, 32767}

ALoads == {AWord(n) : n \in AValues}

\* the first C-instruction of a machine program: it sets up D, A or Ram[A]
Setups ==
    { CWord(<<"A">>, <<"D">>, null),            \* D=A
      CWord(<<"D", "-", "A">>, <<"D">>, null),  \* D=D-A
      CWord(<<"-", "1">>, <<"M">>, null),       \* M=-1
      CWord(<<"A", "+", "1">>, <<"M", "D">>, null),  \* MD=A+1
      CWord(<<"-", "1">>, <<"A">>, null),       \* A=-1
      CWord(<<"D", "-", "A">>, <<"A", "M", "D">>, null) }  \* AMD=D-A

\* every comp with every dest, and every comp with every jump
Tests ==
    {CWord(c, d, null) : c \in DOMAIN comp_table, d \in DOMAIN dest_table}
    \cup {CWord(c, null, j) : c \in DOMAIN comp_table, j \in DOMAIN jump_table}
    \cup {CWord(c, d, j) : c \in {<<"D">>, <<"M", "-", "1">>},
                           d \in {<<"A">>, <<"A", "M">>, <<"A", "M", "D">>},
                           j \in DOMAIN jump_table}

\* sums that leave the 16-bit range, and stores of them
Sums ==
    { CWord(<<"D", "+", "A">>, <<"A", "D">>, null),
      CWord(<<"D", "+", "A">>, <<"M", "D">>, null),
      CWord(<<"D", "-", "A">>, <<"D">>, null),
      CWord(<<"D", "+", "M">>, <<"M">>, null),
      CWord(<<"D", "+", "A">>, <<"M">>, null),
      CWord(<<"D">>, <<"M">>, null) }

\* the binary programs run: a load and a test; a load, a setup and a test;
\* a load, a setup and two sums
MachinePrograms ==
    {<<a, t>> : a \in ALoads, t \in Tests}
    \cup {<<a, s, t>> : a \in ALoads, s \in Setups, t \in Tests}
    \cup {<<a, s, t, u>> : a \in {AWord(32767), AWord(1)},
                           s \in {CWord(<<"A">>, <<"D">>, null),
                                  CWord(<<"D", "-", "A">>, <<"D">>, null)},
                           t \in Sums, u \in Sums}

Budgets == {Inf} \cup 0..MaxCycles

\* D=D+1 and M=D-1;JEQ: the jump goes back to 0 once, so the two instructions
\* run twice and the last cycle writes Ram[0]
LoopTwice ==
    << CWord(<<"D", "+", "1">>, <<"D">>, null),
       CWord(<<"D", "-", "1">>, <<"M">>, <<"J", "E", "Q">>) >>

\* the programs run more than once: stores, a store that reads what Ram
\* holds, no store at all, a loop that ends, a loop that does not, a jump
\* to the end
RunPrograms ==
    {<<a, w>> : a \in {AWord(1), AWord(10)},
                w \in { CWord(<<"1">>, <<"M">>, null), CWord(<<"-", "1">>, <<"M">>, null),
                        CWord(<<"M", "+", "1">>, <<"M">>, null),
                        CWord(<<"A">>, <<"D">>, null) }}
    \cup { LoopTwice,
           <<AWord(0), CWord(<<"0">>, null, <<"J", "M", "P">>)>>,
           <<AWord(3), CWord(<<"D">>, null, <<"J", "E", "Q">>),
             CWord(<<"1">>, <<"M">>, null)>>,
           <<AWord(1), CWord(<<"A">>, <<"M", "D">>, null),
             CWord(<<"D", "+", "1">>, <<"M">>, null)>> }

FiniteBudgets == 0..MaxBudget

\* sample register and memory contents for compute_value
DValues == {-32768, -11, -2, -1, 0, 1, 2, 5, 10, 32767}

CValues == {-1, 0, 1, 2, 10, 11, 32767}

----------------------------------------------------------------------------
(* Specifications *)

\* Simulator.simulate of a binary program
Init ==
    /\ AsmIdle
    /\ CmpIdle
    /\ \E words \in MachinePrograms, budget \in Budgets : SimStart(words, budget)

Next ==
    \/ Step /\ UNCHANGED <<asmVars, cmpVars>>
    \/ Finish /\ UNCHANGED <<asmVars, cmpVars>>

Spec == Init /\ [][Next]_vars

\* Assembler.assemble of a source program
InitAsm ==
    /\ SimIdle
    /\ CmpIdle
    /\ \E lines \in AsmPrograms : AsmStart(lines)

NextAsm ==
    \/ ParseLine /\ UNCHANGED <<simVars, cmpVars>>
    \/ ParseReturn /\ UNCHANGED <<simVars, cmpVars>>
    \/ TranslateWord /\ UNCHANGED <<simVars, cmpVars>>
    \/ TranslateReturn /\ UNCHANGED <<simVars, cmpVars>>

SpecAsm == InitAsm /\ [][NextAsm]_vars

\* A program run with no budget, then run again by a new process with a
\* finite budget
InitBudget ==
    /\ AsmIdle
    /\ CmpIdle
    /\ \E words \in RunPrograms : SimStart(words, Inf)

NextBudget ==
    \/ Step /\ UNCHANGED <<asmVars, cmpVars>>
    \/ Finish /\ UNCHANGED <<asmVars, cmpVars>>
    \/ \E budget \in FiniteBudgets : NewProcess(budget) /\ UNCHANGED <<asmVars, cmpVars>>

SpecBudget == InitBudget /\ [][NextBudget]_vars

\* Programs run one after the other by one process
InitRuns ==
    /\ AsmIdle
    /\ CmpIdle
    /\ \E words \in RunPrograms, budget \in Budgets : SimStart(words, budget)

NextRuns ==
    \/ Step /\ UNCHANGED <<asmVars, cmpVars>>
    \/ Finish /\ UNCHANGED <<asmVars, cmpVars>>
    \/ \E words \in RunPrograms, budget \in Budgets :
           NewSimulator(words, budget) /\ UNCHANGED <<asmVars, cmpVars>>

SpecRuns == InitRuns /\ [][NextRuns]_vars

\* Simulator.compute_value on sampled machine states
InitCompute ==
    /\ AsmIdle
    /\ SimIdle
    /\ cin \in [comp : CompCodes, A : CValues, D : DValues, M : DValues]
    /\ cout = Pending

NextCompute == Compute /\ UNCHANGED <<asmVars, simVars>>

SpecCompute == InitCompute /\ [][NextCompute]_vars

----------------------------------------------------------------------------
(* Claims about the Assembler, checked under SpecAsm *)

\* the 16-bit binary numeral of n, most significant bit first
Word16(n) == [k \in 1..16 |-> IF (n \div Pow2(16 - k)) % 2 = 1 THEN "1" ELSE "0"]

\* assemble has ended, with a result or with an exception
AsmEnded == apc \in {"done", "error"}

\* C1: for every comp mnemonic c and every jump mnemonic j other than null,
\* assembling the one line 'c;j' returns the one word
\* '111' + comp_table[c] + '000' + jump_table[j].
C1_CompJumpWord ==
    \A c \in DOMAIN comp_table, j \in DOMAIN jump_table \ {null} :
        (AsmEnded /\ assembly = <<c \o <<";">> \o j>>)
            => /\ apc = "done"
               /\ res = << <<"1", "1", "1">> \o comp_table[c] \o <<"0", "0", "0">>
                           \o jump_table[j] >>

\* the six words the documentation gives for AddProgram
C2_DocumentedWords ==
    << <<"0","0","0","0","0","0","0","0","0","0","0","0","0","0","1","0">>,
       <<"1","1","1","0","1","1","0","0","1","0","0","1","0","0","0","0">>,
       <<"0","0","0","0","0","0","0","0","0","0","0","0","0","0","1","1">>,
       <<"1","1","1","0","0","0","0","0","1","0","0","1","0","0","0","0">>,
       <<"0","0","0","0","0","0","0","0","0","0","0","0","0","0","0","0">>,
       <<"1","1","1","0","0","0","1","1","0","0","0","0","1","0","0","0">> >>

\* C2 as stated: assembling '@2', 'D=A', '@3', 'D=D+A', '@0', 'M=D' returns
\* exactly the six documented words, the second being 1110110010010000.
C2_AddProgramAsStated ==
    (AsmEnded /\ assembly = AddProgram) => (apc = "done" /\ res = C2_DocumentedWords)

\* C2 amended: assembling the six lines returns the documented words except
\* that the second word, for 'D=A', is 1110110000010000 (comp code 0110000).
C2_AddProgramWords ==
    (AsmEnded /\ assembly = AddProgram)
        => /\ apc = "done"
           /\ res = [C2_DocumentedWords EXCEPT
                       ![2] = <<"1","1","1","0","1","1","0","0","0","0","0","1","0","0","0","0">>]

C2_Witness == apc = "done" /\ assembly = AddProgram /\ Len(res) = 6

\* the names the symbol programs define as labels
C3_Names == {LOOP, END}

\* the lines of the source that define name, and those that are instructions
C3_Definitions(name) == {p \in 1..Len(assembly) : assembly[p] = Label(name)}

C3_IsInstruction(p) == assembly[p][1] # "("

\* the number of instructions before line p
C3_InstructionsBefore(p) == Cardinality({q \in 1..(p - 1) : C3_IsInstruction(q)})

\* C3: in a program of label definitions and instructions, the definitions
\* emit no word; a name defined once is bound to the number of instructions
\* before its definition, and every '@name', before or after the definition,
\* is encoded as that number; '(LOOP)', '@LOOP', '0;JMP' gives sixteen zeros.
C3_LabelsResolve ==
    (apc = "done" /\ assembly \in SymPrograms) =>
        /\ Len(res) = Cardinality({p \in 1..Len(assembly) : C3_IsInstruction(p)})
        /\ \A name \in C3_Names :
             Cardinality(C3_Definitions(name)) = 1 =>
                LET def == CHOOSE p \in C3_Definitions(name) : TRUE
                IN  /\ symbol_dic[name] = C3_InstructionsBefore(def)
                    /\ \A p \in 1..Len(assembly) :
                         assembly[p] = At(name) =>
                            res[C3_InstructionsBefore(p) + 1]
                               = Word16(C3_InstructionsBefore(def))
        /\ assembly = <<Label(LOOP), At(LOOP), <<"0", ";", "J", "M", "P">> >>
             => res[1] = Word16(0)

\* a reference to END ahead of its definition, resolved to instruction 2
C3_Witness ==
    /\ apc = "done"
    /\ assembly = <<At(END), <<"0", ";", "J", "M", "P">>, Label(END), At(END)>>
    /\ res[1] = Word16(2)
    /\ res[3] = Word16(2)

\* the symbols of the '@' instructions translated so far that are variables:
\* not numeric, not predefined, not defined as a label
C4_IsVariableAt(p) ==
    /\ filtered_code[p][1] = "@"
    /\ ~isnumeric(Tail(filtered_code[p]))
    /\ Tail(filtered_code[p]) \notin DOMAIN initialize_symbol_table
    /\ \A q \in 1..Len(assembly) : assembly[q] # Label(Tail(filtered_code[p]))

\* the translated instructions: those before pos during pass 2
C4_Translated ==
    IF apc = "translate" THEN 1..(pos - 1)
    ELSE IF apc = "done" THEN 1..Len(filtered_code) ELSE {}

\* the number of distinct variables first met before or at instruction p
C4_Rank(p) ==
    Cardinality({Tail(filtered_code[q]) : q \in {r \in 1..p : C4_IsVariableAt(r)}})

C4_Bindings ==
    assembly \in SymPrograms =>
        \A p \in C4_Translated :
            C4_IsVariableAt(p) =>
               LET first == CHOOSE q \in 1..p :
                               /\ filtered_code[q] = filtered_code[p]
                               /\ \A r \in 1..(q - 1) : filtered_code[r] # filtered_code[p]
                   sym == Tail(filtered_code[p])
               IN  /\ symbol_dic[sym] = 16 + (C4_Rank(first) - 1)
                   /\ res[p] = Word16(16 + (C4_Rank(first) - 1))
                   /\ \A q \in C4_Translated :
                        (C4_IsVariableAt(q) /\ filtered_code[q] # filtered_code[p])
                            => symbol_dic[Tail(filtered_code[q])] # symbol_dic[sym]

C4_Stable ==
    (apc = "translate" /\ assembly \in SymPrograms) =>
        \A s \in DOMAIN symbol_dic : s \in DOMAIN symbol_dic' /\ symbol_dic'[s] = symbol_dic[s]

\* C4: in pass 2 the k-th distinct symbol that is neither predefined nor a
\* label is bound to 16 + (k - 1); every reference to it, the first and the
\* later ones, is encoded as that address; two variables never share an
\* address; and no binding of the symbol table changes during pass 2.
C4_VariablesAllocated == [](C4_Bindings) /\ [][C4_Stable]_vars

\* two variables, the first referenced again after the second
C4_Witness ==
    /\ apc = "done"
    /\ assembly = <<At(<<"i">>), At(<<"s", "u", "m">>), Label(LOOP), At(<<"i">>)>>
    /\ res[2] = Word16(17)
    /\ res[3] = Word16(16)

----------------------------------------------------------------------------
(* Claims about Simulator.compute_value, checked under SpecCompute *)

\* the operation a comp mnemonic names, over A = a, D = d, RAM[A] = m
CompOperation(c, a, d, m) ==
    CASE c = <<"0">> -> 0
      [] c = <<"1">> -> 1
      [] c = <<"-", "1">> -> -1
      [] c = <<"D">> -> d
      [] c = <<"A">> -> a
      [] c = <<"M">> -> m
      [] c = <<"!", "D">> -> -d - 1
      [] c = <<"!", "A">> -> -a - 1
      [] c = <<"!", "M">> -> -m - 1
      [] c = <<"-", "D">> -> -d
      [] c = <<"-", "A">> -> -a
      [] c = <<"-", "M">> -> -m
      [] c \in {<<"D", "+", "1">>, <<"1", "+", "D">>} -> d + 1
      [] c \in {<<"A", "+", "1">>, <<"1", "+", "A">>} -> a + 1
      [] c \in {<<"M", "+", "1">>, <<"1", "+", "M">>} -> m + 1
      [] c = <<"D", "-", "1">> -> d - 1
      [] c = <<"A", "-", "1">> -> a - 1
      [] c = <<"M", "-", "1">> -> m - 1
      [] c \in {<<"D", "+", "A">>, <<"A", "+", "D">>} -> d + a
      [] c \in {<<"D", "+", "M">>, <<"M", "+", "D">>} -> d + m
      [] c = <<"D", "-", "A">> -> d - a
      [] c = <<"D", "-", "M">> -> d - m
      [] c = <<"A", "-", "D">> -> a - d
      [] c = <<"M", "-", "D">> -> m - d
      [] c = <<"D", "&", "A">> -> BitAnd(d, a)
      [] c = <<"D", "&", "M">> -> BitAnd(d, m)
      [] c = <<"D", "|", "A">> -> BitOr(d, a)
      [] c = <<"D", "|", "M">> -> BitOr(d, m)

Signed16 == -32768..32767

\* C5: every code of comp_table is decoded by compute_value as the operation
\* its mnemonic names: encoding a mnemonic and computing the code yields
\* that operation's value, and no table code takes the default.
C5_CompCodesDecoded ==
    cout # Pending =>
        \A c \in DOMAIN comp_table :
            comp_table[c] = cin.comp
                => cout = Val(CompOperation(c, cin.A, cin.D, cin.M))

\* the register or memory word a complement or negation code reads
OperandOf(c) ==
    CASE c[2] = "D" -> cin.D
      [] c[2] = "A" -> cin.A
      [] c[2] = "M" -> cin.M

\* C6: for the codes of !D, !A and !M and every signed 16-bit x in D, A or
\* RAM[A], compute_value returns -x - 1, the 16-bit bitwise negation of x,
\* and raises nothing.
C6_ComplementComputed ==
    \A c \in {<<"!", "D">>, <<"!", "A">>, <<"!", "M">>} :
        (cout # Pending /\ cin.comp = comp_table[c] /\ OperandOf(c) \in Signed16)
            => (cout.err = "" /\ cout.val = -OperandOf(c) - 1)

\* C7: for the codes of -D, -A and -M and every x in D, A or RAM[A], the
\* value computed is -x.
C7_NegationComputed ==
    \A c \in {<<"-", "D">>, <<"-", "A">>, <<"-", "M">>} :
        (cout # Pending /\ cin.comp = comp_table[c])
            => (cout.err = "" /\ cout.val = -OperandOf(c))

----------------------------------------------------------------------------
(* Claims about a simulation run, checked under Spec *)

\* the condition a jump mnemonic names
JumpCondition(j, v) ==
    CASE j = <<"J", "G", "T">> -> v > 0
      [] j = <<"J", "E", "Q">> -> v = 0
      [] j = <<"J", "G", "E">> -> v >= 0
      [] j = <<"J", "L", "T">> -> v < 0
      [] j = <<"J", "N", "E">> -> v # 0
      [] j = <<"J", "L", "E">> -> v <= 0
      [] j = <<"J", "M", "P">> -> TRUE
      [] j = null -> FALSE

\* this step executed a C-instruction to its end
ExecutedC ==
    /\ spc = "loop" /\ spc' = "loop" /\ i' = i + 1
    /\ CanFetch
    /\ Fetched[1] = "1"

\* C8: a C-instruction executed with computed value v leaves the program
\* counter at the value A then has exactly when the condition of its jump
\* field holds for v, and at the old program counter plus 1 otherwise; the
\* null field never jumps.
C8_JumpDecides ==
    [][ExecutedC =>
          \A j \in DOMAIN jump_table :
              jump_table[j] = SubSeq(Fetched, 14, 16)
                  => PC' = IF JumpCondition(j, value') THEN A' ELSE PC + 1]_vars

\* '-1;JLT' after '@10': the jump is taken, to 10
C8_Witness ==
    /\ instructions = <<AWord(10), CWord(<<"-", "1">>, null, <<"J", "L", "T">>)>>
    /\ spc = "loop" /\ i = 2
    /\ value = -1
    /\ PC = 10

\* C9: when a run from fresh machine state ends, the report holds exactly the
\* addresses of the RAM words written during the run, each with the word's
\* last value, v + 65536 for a negative v and v otherwise.
C9_ReportIsLastWrites ==
    spc = "done" =>
        /\ ResKeys(Res) = DOMAIN Ram
        /\ \A k \in ResKeys(Res) :
             k \in DOMAIN Ram
                => ResGet(Res, k) = IF Ram[k] < 0 THEN Ram[k] + 65536 ELSE Ram[k]

\* C10: every value of the final report lies in 0..65535.
C10_ReportUnsigned16 ==
    spc = "done" => \A n \in 1..Len(Res) : Res[n][2] \in 0..65535

----------------------------------------------------------------------------
(* Claims about a program run under two budgets, checked under SpecBudget *)

\* the second run of the program writes its report
SecondReport == runs = 2 /\ spc = "loop" /\ spc' = "done"

\* C11 as stated: a program that ended by itself under no budget, run again
\* under a finite budget of at least the number of instructions in the
\* program, writes the same report.
C11_BudgetOfProgramLength ==
    [][(SecondReport /\ cycles >= Len(instructions))
          => RamJson'.data = RamJson.data]_vars

\* C11: a program that ended by itself under no budget, run again under a
\* finite budget of at least the number of cycles that run executed, writes
\* the same report.
C11_BudgetOfExecutedCycles ==
    [][(SecondReport /\ cycles >= executed)
          => RamJson'.data = RamJson.data]_vars

\* LoopTwice has run its four cycles under no budget and again under the
\* budget 4; the report is {0: 1}
C11_Witness ==
    /\ instructions = LoopTwice
    /\ runs = 2 /\ cycles = 4
    /\ spc = "done" /\ i = 4
    /\ RamJson = [written |-> TRUE, data |-> <<<<0, 1>>>>]

----------------------------------------------------------------------------
(* Claims about runs that follow one another in a process, checked under SpecRuns *)

\* C12: at the start of every run of simulate, A, D and PC are 0, every RAM
\* word is 0 and the write-log is empty, whatever ran before on another
\* Simulator of the same process.
C12_RunStartsFresh ==
    (spc = "loop" /\ i = 0) =>
        /\ A = 0 /\ D = 0 /\ PC = 0
        /\ \A k \in DOMAIN Ram : Ram[k] = 0
        /\ Res = <<>>

----------------------------------------------------------------------------
(* Claims about the words assemble returns and its failures, checked under SpecAsm *)

\* the fields of a C-instruction line, as its separators delimit them
Fields(line) == re_split(line, {"=", ";"})

\* the C-instruction lines of the program that have two or three fields
CLines ==
    {filtered_code[n] : n \in {m \in 1..Len(filtered_code) :
                                 /\ filtered_code[m][1] # "@"
                                 /\ Len(Fields(filtered_code[m])) \in {2, 3}}}

\* the dest, comp and jump tokens of a line of the shapes d=c, c;j and d=c;j
TokensOf(line) ==
    LET f == Fields(line)
    IN  IF Len(f) = 3 THEN [d |-> f[1], c |-> f[2], j |-> f[3]]
        ELSE IF \E n \in 1..Len(line) : line[n] = "="
        THEN [d |-> f[1], c |-> f[2], j |-> null]
        ELSE [d |-> null, c |-> f[1], j |-> f[2]]

UnknownToken(line) ==
    \/ TokensOf(line).d \notin DOMAIN dest_table
    \/ TokensOf(line).c \notin DOMAIN comp_table
    \/ TokensOf(line).j \notin DOMAIN jump_table

\* the fallback as documented: two fields, the second not a jump mnemonic
\* and purely numeric
DocumentedFallback(line) ==
    /\ Len(Fields(line)) = 2
    /\ Fields(line)[2] \notin DOMAIN jump_table
    /\ isnumeric(Fields(line)[2])

\* C13: assemble ends in a lookup error, with no words returned, whenever a
\* C-instruction has a dest, comp or jump token that is not a key of its
\* table, the documented fallback apart.
C13_UnknownTokenFails ==
    (AsmEnded /\ \E line \in CLines : UnknownToken(line) /\ ~DocumentedFallback(line))
        => apc = "error"

----------------------------------------------------------------------------
(* Claims about the run of a program, checked under Spec *)

\* C14: whenever the loop of simulate goes on to fetch an instruction, PC is
\* an index of the instruction stream, 0 <= PC < len(instructions); with PC
\* anywhere else the loop has stopped.
C14_FetchInsideProgram ==
    (spc = "loop" /\ InBudget /\ PC # Len(instructions))
        => PC \in 0..(Len(instructions) - 1)

\* C15: under a finite budget n the run performs at most n cycles.
C15_CyclesWithinBudget ==
    cycles # Inf => i <= cycles

\* C16: every key of the write-log, and so of the report, is a RAM address
\* in 0..65535, also after a C-instruction has set A.
C16_LogKeysAreAddresses ==
    \A k \in ResKeys(Res) : k \in 0..(RamSize - 1)

\* a machine as the class statement of Simulator builds it
FreshMachine ==
    [A |-> 0, D |-> 0, PC |-> 0, Ram |-> <<>>, Res |-> <<>>, value |-> 0, err |-> ""]

\* C17: every word assemble returns has exactly 16 characters, each '0' or
\* '1'; the word of an A-instruction has bit 0 = '0', and that of '@' with a
\* decimal literal is decoded by the Simulator as the load of the literal
\* into A; the word of a C-instruction starts with '111'.
C17_WordsAreWellFormed ==
    apc = "done" =>
        \A n \in 1..Len(res) :
            /\ Len(res[n]) = 16
            /\ \A k \in 1..16 : res[n][k] \in {"0", "1"}
            /\ IF filtered_code[n][1] = "@"
               THEN /\ res[n][1] = "0"
                    /\ isnumeric(Tail(filtered_code[n]))
                          => process_instruction(res[n], FreshMachine).A
                                = int10(Tail(filtered_code[n]))
               ELSE SubSeq(res[n], 1, 3) = <<"1", "1", "1">>

\* C18: a C-instruction executed with value v, from an A that is a RAM
\* address, assigns v to exactly the members of A, D and RAM[A] that its
\* dest field names, and logs the write of RAM[A]; what the field does not
\* name keeps its value (null changes nothing). The RAM word written, also
\* when the field names A as well (AM, AMD), is the one at the address A
\* held when the instruction started.
C18_DestAssigns ==
    [][(ExecutedC /\ A \in 0..(RamSize - 1)) =>
          \A d \in DOMAIN dest_table :
              dest_table[d] = SubSeq(Fetched, 11, 13) =>
                  LET names(r) == \E n \in 1..Len(d) : d[n] = r
                  IN  /\ A' = IF names("A") THEN value' ELSE A
                      /\ D' = IF names("D") THEN value' ELSE D
                      /\ IF names("M")
                         THEN /\ Ram' = (A :> value') @@ Ram
                              /\ ResKeys(Res') = ResKeys(Res) \cup {A}
                              /\ ResGet(Res', A) = value'
                         ELSE Ram' = Ram /\ Res' = Res]_vars

\* bit k of x in two's complement
BitOf(x, k) == (x \div Pow2(k)) % 2

RECURSIVE BitwiseUpTo(_, _, _, _)
\* the number whose bits 0..k are f of the bits of x and y
BitwiseUpTo(f(_, _), x, y, k) ==
    IF k < 0 THEN 0
    ELSE f(BitOf(x, k), BitOf(y, k)) * Pow2(k) + BitwiseUpTo(f, x, y, k - 1)

\* x and y combined bit by bit over 24-bit two's complement: bit 23 is the sign
Bitwise(f(_, _), x, y) ==
    BitwiseUpTo(f, x, y, 22) - f(BitOf(x, 23), BitOf(y, 23)) * Pow2(23)

\* the comp mnemonics of constants, pass-throughs, increments, decrements,
\* sums, differences and the bitwise operations
Expressions ==
    { <<"0">>, <<"1">>, <<"-", "1">>, <<"D">>, <<"A">>, <<"M">>,
      <<"D", "+", "1">>, <<"A", "+", "1">>, <<"M", "+", "1">>,
      <<"D", "-", "1">>, <<"A", "-", "1">>, <<"M", "-", "1">>,
      <<"D", "+", "A">>, <<"D", "+", "M">>, <<"D", "-", "A">>, <<"D", "-", "M">>,
      <<"A", "-", "D">>, <<"M", "-", "D">>,
      <<"D", "&", "A">>, <<"D", "&", "M">>, <<"D", "|", "A">>, <<"D", "|", "M">> }

\* the value of the expression c over A = a, D = d, RAM[A] = m
ValueOf(c, a, d, m) ==
    CASE c = <<"D", "&", "A">> -> Bitwise(LAMBDA p, q : p * q, d, a)
      [] c = <<"D", "&", "M">> -> Bitwise(LAMBDA p, q : p * q, d, m)
      [] c = <<"D", "|", "A">> -> Bitwise(LAMBDA p, q : p + q - p * q, d, a)
      [] c = <<"D", "|", "M">> -> Bitwise(LAMBDA p, q : p + q - p * q, d, m)
      [] OTHER -> CompOperation(c, a, d, m)

ReadsM(c) == \E n \in 1..Len(c) : c[n] = "M"

\* C19: a C-instruction whose comp field is the code of one of the
\* expressions is executed with the value of that expression over the A, D
\* and RAM[A] of the state it starts in (A a RAM address where the
\* expression reads M); computing changes nothing: with the null dest A, D,
\* RAM and the write-log are as before, and with the null jump too PC has
\* only moved to the next instruction.
C19_ExpressionComputed ==
    [][ExecutedC =>
          \A c \in Expressions :
              (/\ comp_table[c] = SubSeq(Fetched, 4, 10)
               /\ ReadsM(c) => A \in 0..(RamSize - 1))
              => /\ value' = ValueOf(c, A, D, RamRead(Ram, A))
                 /\ SubSeq(Fetched, 11, 13) = dest_table[null]
                       => /\ A' = A /\ D' = D /\ Ram' = Ram /\ Res' = Res
                          /\ SubSeq(Fetched, 14, 16) = jump_table[null]
                                => PC' = PC + 1]_vars

\* 'D+M' with null dest and jump after '@10' and 'MD=A+1': the value is 22,
\* and the registers, the RAM and the write-log are those of 'MD=A+1'
C19_Witness ==
    /\ instructions = << AWord(10), CWord(<<"A", "+", "1">>, <<"M", "D">>, null),
                         CWord(<<"D", "+", "M">>, null, null) >>
    /\ spc = "loop" /\ i = 3 /\ PC = 3
    /\ value = 22
    /\ A = 10 /\ D = 11
    /\ Ram = (10 :> 11)
    /\ Res = << <<10, 11>> >>

----------------------------------------------------------------------------
(* Claims about the encoding of dest=comp and dest=comp;jump, checked under SpecAsm *)

\* C20: for every dest mnemonic d, comp mnemonic c and jump mnemonic j,
\* assembling the one line 'd=c' returns the one word
\* '111' + comp_table[c] + dest_table[d] + '000', and assembling 'd=c;j'
\* returns '111' + comp_table[c] + dest_table[d] + jump_table[j]: comp code
\* in bits 3-10, dest code in bits 10-13, jump code in bits 13-16.
C20_DestCompJumpWord ==
    (AsmEnded /\ Len(assembly) = 1) =>
        \A d \in DOMAIN dest_table, c \in DOMAIN comp_table :
            /\ assembly = <<d \o <<"=">> \o c>>
                  => /\ apc = "done"
                     /\ res = << <<"1", "1", "1">> \o comp_table[c] \o dest_table[d]
                                 \o <<"0", "0", "0">> >>
            /\ \A j \in DOMAIN jump_table :
                  assembly = <<d \o <<"=">> \o c \o <<";">> \o j>>
                     => /\ apc = "done"
                        /\ Len(res) = 1 /\ Len(res[1]) = 16
                        /\ SubSeq(res[1], 1, 3) = <<"1", "1", "1">>
                        /\ SubSeq(res[1], 4, 10) = comp_table[c]
                        /\ SubSeq(res[1], 11, 13) = dest_table[d]
                        /\ SubSeq(res[1], 14, 16) = jump_table[j]

\* 'MD=D+1;JNE' is assembled to 1110011111011101
C20_Witness ==
    /\ assembly = << <<"M", "D", "=", "D", "+", "1", ";", "J", "N", "E">> >>
    /\ apc = "done"
    /\ res = << <<"1", "1", "1", "0", "0", "1", "1", "1", "1", "1", "0", "1", "1",
                  "1", "0", "1">> >>

====
